---- MODULE Spec2Model ----
(***************************************************************************)
(* Model of the two calendar tools of voice_assistant/tools:               *)
(*   CreateCalendarEvent.py  and  CancelCalendarEvent.py.                  *)
(* One behaviour of the model is one tool object: its construction         *)
(* (field validation), then one call of run(), which calls                 *)
(* authenticate_calendar() and then the calendar API.                      *)
(* The outcome of every call into the environment (token file, refresh,    *)
(* OAuth flow, build, list, insert, delete) is a nondeterministic choice.  *)
(***************************************************************************)
EXTENDS Integers, Sequences, FiniteSets, TLC

VARIABLES
    handler,          \* "create" | "cancel": which tool this object is
    MAX_RETRIES,      \* int(os.getenv('CALENDAR_MAX_RETRIES', 3))
    tokenFile,        \* content of the file at TOKEN_PATH
    secretFile,       \* state of the file at CREDENTIALS_PATH
    tokenTouched,     \* another task has rewritten TOKEN_PATH during this call
    date,             \* self.date
    time,             \* self.time ("" stands for None / empty)
    duration_minutes, \* self.duration_minutes (create only)
    pc,               \* position of the invocation
    attempt,          \* loop variable of authenticate_calendar (-1 before the loop)
    creds,            \* local creds of authenticate_calendar
    exc,              \* exception in flight ("" when none)
    outcomes,         \* how each finished authentication attempt ended
    refreshCalls,     \* number of creds.refresh(Request()) calls
    flowStarts,       \* number of interactive flows started
    secretChecks,     \* number of os.path.exists(CREDENTIALS_PATH) checks
    retrySleeps,      \* number of asyncio.sleep(RETRY_DELAY) calls
    tokenWrites,      \* number of pickle.dump(creds, token) writes
    authRet,          \* value returned by authenticate_calendar
    remoteLog,        \* calendar API calls issued, in order
    found,            \* events_result.get('items', []) of the list call
    events,           \* local events of CancelCalendarEvent.run
    idx,              \* position of the delete loop in events
    deleted_count,    \* local deleted_count of CancelCalendarEvent.run
    result            \* value returned by (or exception escaping) run()

authVars == <<attempt, creds, outcomes, refreshCalls, flowStarts, secretChecks,
              retrySleeps, tokenWrites, authRet, tokenFile>>
reqVars == <<handler, MAX_RETRIES, secretFile, tokenTouched, date, time,
             duration_minutes>>
apiVars == <<remoteLog, found, events, idx, deleted_count>>
vars == <<handler, MAX_RETRIES, tokenFile, secretFile, tokenTouched, date, time, duration_minutes,
          pc, attempt, creds, exc, outcomes, refreshCalls, flowStarts, secretChecks,
          retrySleeps, tokenWrites, authRet, remoteLog, found, events, idx, deleted_count,
          result>>

----------------------------------------------------------------------------
(* Bounds of the model *)

\* largest configured CALENDAR_MAX_RETRIES explored (0 .. MaxRetriesBound)
MaxRetriesBound == 2
\* largest number of events a list call returns
MaxEvents == 3

----------------------------------------------------------------------------
(* Values *)

Handlers == {"create", "cancel"}

\* Credentials objects: None, a valid one, an expired one with a refresh
\* token, one that is neither valid nor refreshable, and the objects that a
\* successful refresh / a successful interactive flow produce.
NoCreds == "None"

\* creds.valid
Valid(c) == c \in {"valid", "refreshed", "fresh"}
\* creds.expired and creds.refresh_token
Refreshable(c) == c = "expired_rt"
\* truthiness of creds
Truthy(c) == c # NoCreds

\* What the file at TOKEN_PATH may hold before the call.
TokenFileStates == {"absent", "corrupt", "valid", "expired_rt", "unusable"}
\* What the file at CREDENTIALS_PATH may be.
SecretFileStates == {"absent", "ok", "malformed"}

\* Exception classes that matter to the except clauses.
Exceptions == {"TimeoutError", "Exception"}
CallOutcomes == {"ok"} \cup Exceptions

\* Return values of run(): a string (its template text and the number
\* interpolated into it), or an exception that escaped.
Msg(text, n) == [type |-> "str", text |-> text, n |-> n]
Raised(e) == [type |-> "raise", text |-> e, n |-> 0]
NoResult == [type |-> "unset", text |-> "", n |-> 0]

\* Return values of authenticate_calendar(): the tuple (creds, error), or
\* None when control falls off the end of the function.
AuthTuple(c, e) == [kind |-> "tuple", creds |-> c, error |-> e]
AuthNone == [kind |-> "None", creds |-> NoCreds, error |-> "None"]
AuthUnset == [kind |-> "unset", creds |-> NoCreds, error |-> "None"]

----------------------------------------------------------------------------
(* Request fields *)

\* datetime.now().strftime("%Y-%m-%d")
Today == "2024-03-09"
DateStrings == {"", "2024-12-30", "not-a-date"}
\* values of self.time tried for each tool ("" is the default, None)
TimeStrings(h) ==
    IF h = "create" THEN {"", "09:30", "23:45"}
    ELSE {"", "00:00", "09:00", "09:30", "25:00"}
Durations == {-1, 0, 1, 480, 481}

\* Field(gt=0, le=480) of duration_minutes
DurationValid(d) == d > 0 /\ d <= 480

\* datetime.strptime(s, "%Y-%m-%d"): the day number of the date, or a failure
DateParses(s) == s \in {"2024-03-09", "2024-12-30"}
DayOf(s) == IF s = "2024-03-09" THEN 69 ELSE 365

\* datetime.strptime(s, "%H:%M"): hour and minute, or a failure
TimeParses(s) == s \in {"00:00", "09:00", "09:30", "23:45"}
HourOf(s) == CASE s = "00:00" -> 0 [] s = "09:00" -> 9 [] s = "09:30" -> 9 [] OTHER -> 23
MinuteOf(s) == CASE s = "00:00" -> 0 [] s = "09:00" -> 0 [] s = "09:30" -> 30 [] OTHER -> 45

\* date = self.date if self.date else datetime.now().strftime("%Y-%m-%d")
EffectiveDate(d) == IF d # "" THEN d ELSE Today

\* datetime.strptime(f"{date} {time}", "%Y-%m-%d %H:%M")
DateTimeParses(d, t) == DateParses(d) /\ TimeParses(t)
ParseDateTime(d, t) == [day |-> DayOf(d), hour |-> HourOf(t), minute |-> MinuteOf(t)]

\* variant: the sum wraps around midnight without moving to the next day
AddMinutesNoCarry(dt, m) ==
    LET total == dt.hour * 60 + dt.minute + m
    IN [day |-> dt.day, hour |-> (total % 1440) \div 60, minute |-> total % 60]

\* datetime + timedelta(minutes=m): the sum, normalised to day/hour/minute
AddMinutes(dt, m) ==
    LET total == dt.hour * 60 + dt.minute + m
    IN [day |-> dt.day + (total \div 1440),
        hour |-> (total % 1440) \div 60,
        minute |-> total % 60]

----------------------------------------------------------------------------
(* Initial state: a tool object about to be constructed *)

Init ==
    /\ handler \in Handlers
    /\ MAX_RETRIES \in 0 .. MaxRetriesBound
    /\ tokenFile \in TokenFileStates
    /\ secretFile \in SecretFileStates
    /\ tokenTouched = FALSE
    /\ date \in DateStrings
    /\ time \in TimeStrings(handler)
    /\ duration_minutes \in (IF handler = "create" THEN Durations ELSE {30})
    /\ pc = "new"
    /\ attempt = -1
    /\ creds = NoCreds
    /\ exc = ""
    /\ outcomes = <<>>
    /\ refreshCalls = 0
    /\ flowStarts = 0
    /\ secretChecks = 0
    /\ retrySleeps = 0
    /\ tokenWrites = 0
    /\ authRet = AuthUnset
    /\ remoteLog = <<>>
    /\ found = <<>>
    /\ events = <<>>
    /\ idx = 0
    /\ deleted_count = 0
    /\ result = NoResult

----------------------------------------------------------------------------
(* Construction: pydantic validates the declared fields *)

Construct ==
    /\ pc = "new"
    /\ pc' = IF handler = "create" /\ ~DurationValid(duration_minutes)
             THEN "rejected" ELSE "run"
    /\ UNCHANGED <<reqVars, authVars, apiVars, exc, result>>

\* run(): entry; resolves the date and calls authenticate_calendar()
RunStart ==
    /\ pc = "run"
    /\ date' = EffectiveDate(date)
    /\ pc' = "auth_loop"
    /\ UNCHANGED <<handler, MAX_RETRIES, secretFile, tokenTouched, time,
                   duration_minutes, authVars, apiVars, exc, result>>

----------------------------------------------------------------------------
(* authenticate_calendar *)

TimeoutMessage == "Authentication timed out after multiple attempts."
FailedMessage == "Authentication failed: {e}"
NoSecretMessage == "Error: credentials.json file not found."

\* the value returned: finish the attempt and hand the value to run()
AuthReturn(value, how) ==
    /\ authRet' = value
    /\ outcomes' = Append(outcomes, how)
    /\ pc' = "auth_done"

\* an exception raised inside the try block of the attempt
AuthRaise(e) ==
    /\ exc' = e
    /\ pc' = "auth_except"

\* for attempt in range(MAX_RETRIES): next iteration, or fall off the end
AuthLoop ==
    /\ pc = "auth_loop"
    /\ IF attempt + 1 < MAX_RETRIES
       THEN /\ attempt' = attempt + 1
            /\ creds' = NoCreds
            /\ pc' = "auth_load"
            /\ UNCHANGED authRet
       ELSE /\ authRet' = AuthNone
            /\ pc' = "auth_done"
            /\ UNCHANGED <<attempt, creds>>
    /\ UNCHANGED <<reqVars, apiVars, exc, result, outcomes, refreshCalls, flowStarts,
                   secretChecks, retrySleeps, tokenWrites, tokenFile>>

\* if os.path.exists(TOKEN_PATH): creds = pickle.load(token)
AuthLoad ==
    /\ pc = "auth_load"
    /\ IF tokenFile = "corrupt"
       THEN AuthRaise("Exception") /\ UNCHANGED creds
       ELSE /\ creds' = IF tokenFile = "absent" THEN NoCreds ELSE tokenFile
            /\ pc' = "auth_check"
            /\ UNCHANGED exc
    /\ UNCHANGED <<reqVars, apiVars, result, attempt, outcomes, refreshCalls,
                   flowStarts, secretChecks, retrySleeps, tokenWrites, authRet,
                   tokenFile>>

\* if not creds or not creds.valid
NeedsAuth(c) == ~Truthy(c) \/ ~Valid(c)
\* variant: only the first attempt refreshes; a retry falls back to the flow
TakesRefreshFirstOnly(c) == Truthy(c) /\ Refreshable(c) /\ attempt = 0

\* if creds and creds.expired and creds.refresh_token
TakesRefresh(c) == Truthy(c) /\ Refreshable(c)

\* the branch taken on the loaded credential
AuthCheck ==
    /\ pc = "auth_check"
    /\ IF NeedsAuth(creds)
       THEN /\ pc' = IF TakesRefresh(creds) THEN "auth_refresh" ELSE "auth_secret"
            /\ UNCHANGED <<authRet, outcomes>>
       ELSE AuthReturn(AuthTuple(creds, "None"), "ok")
    /\ UNCHANGED <<reqVars, apiVars, exc, result, attempt, creds, refreshCalls,
                   flowStarts, secretChecks, retrySleeps, tokenWrites, tokenFile>>

\* creds.refresh(Request()); the refreshed object is returned as it is
AuthRefresh ==
    /\ pc = "auth_refresh"
    /\ refreshCalls' = refreshCalls + 1
    /\ \E o \in CallOutcomes :
        IF o = "ok"
        THEN /\ creds' = "refreshed"
             /\ AuthReturn(AuthTuple("refreshed", "None"), "ok")
             /\ UNCHANGED exc
        ELSE /\ AuthRaise(o)
             /\ UNCHANGED <<creds, authRet, outcomes>>
    /\ UNCHANGED <<reqVars, apiVars, result, attempt, flowStarts, secretChecks,
                   retrySleeps, tokenWrites, tokenFile>>

\* if not os.path.exists(CREDENTIALS_PATH): return None, "Error: ..."
AuthSecret ==
    /\ pc = "auth_secret"
    /\ secretChecks' = secretChecks + 1
    /\ IF secretFile = "absent"
       THEN AuthReturn(AuthTuple(NoCreds, NoSecretMessage), "nosecret")
       ELSE /\ pc' = "auth_secret_read"
            /\ UNCHANGED <<authRet, outcomes>>
    /\ UNCHANGED <<reqVars, apiVars, exc, result, attempt, creds, refreshCalls,
                   flowStarts, retrySleeps, tokenWrites, tokenFile>>

\* await asyncio.sleep(0.5), then
\* flow = InstalledAppFlow.from_client_secrets_file(CREDENTIALS_PATH, SCOPES):
\* the file is read as it is after the sleep
AuthSecretRead ==
    /\ pc = "auth_secret_read"
    /\ IF secretFile = "ok"
       THEN pc' = "auth_flow" /\ UNCHANGED exc
       ELSE AuthRaise("Exception")
    /\ UNCHANGED <<reqVars, apiVars, result, authVars>>

\* future = executor.submit(auth_flow): the interactive flow starts, and the
\* coroutine awaits its result
AuthFlow ==
    /\ pc = "auth_flow"
    /\ flowStarts' = flowStarts + 1
    /\ pc' = "auth_flow_wait"
    /\ UNCHANGED <<reqVars, apiVars, exc, result, attempt, creds, outcomes,
                   refreshCalls, secretChecks, retrySleeps, tokenWrites, authRet,
                   tokenFile>>

\* How writing the token file ends: written; open(TOKEN_PATH, 'wb') raises
\* (the file is untouched); pickle.dump raises (open has truncated the file).
WriteOutcomes == {"ok", "open_raises", "dump_raises"}
\* the token file after: with open(TOKEN_PATH, 'wb') as token: pickle.dump(creds, token)
FileAfterWrite(file, c, w) ==
    IF w = "ok" THEN c ELSE IF w = "dump_raises" THEN "corrupt" ELSE file

\* creds = await ... future.result(timeout=AUTH_TIMEOUT), then the token file
\* is written and the credential returned
AuthFlowResult ==
    /\ pc = "auth_flow_wait"
    /\ \E o \in CallOutcomes, w \in WriteOutcomes :
        IF o # "ok"
        THEN /\ AuthRaise(o)
             /\ UNCHANGED <<creds, tokenFile, tokenWrites, authRet, outcomes>>
        ELSE /\ creds' = "fresh"
             /\ tokenFile' = FileAfterWrite(tokenFile, "fresh", w)
             /\ IF w = "ok"
                THEN /\ tokenWrites' = tokenWrites + 1
                     /\ AuthReturn(AuthTuple("fresh", "None"), "ok")
                     /\ UNCHANGED exc
                ELSE /\ AuthRaise("Exception")
                     /\ UNCHANGED <<tokenWrites, authRet, outcomes>>
    /\ UNCHANGED <<reqVars, apiVars, result, attempt, flowStarts, refreshCalls,
                   secretChecks, retrySleeps>>

\* await asyncio.sleep(RETRY_DELAY) of the two except clauses: the invocation
\* is back at the head of the loop after a failed attempt
AtRetrySleep == pc = "auth_loop" /\ attempt >= 0
\* await loop.run_in_executor(...) of run(): the insert, the list, a delete
AtApiAwait == pc \in {"create_insert", "cancel_list", "cancel_delete"}
\* The places where the invocation awaits (the sleeps before the token file
\* is looked at, before the refresh and before the secret file is read, the
\* wait for the flow, the retry sleeps and the API calls of run()): other
\* tasks run there.
AtAwait ==
    \/ pc \in {"auth_load", "auth_refresh", "auth_secret_read", "auth_flow_wait"}
    \/ AtRetrySleep
    \/ AtApiAwait

\* another task creates, removes or rewrites the file at CREDENTIALS_PATH
EnvSecretFile ==
    /\ AtAwait
    /\ secretFile' \in SecretFileStates \ {secretFile}
    /\ UNCHANGED <<handler, MAX_RETRIES, tokenTouched, date, time, duration_minutes,
                   authVars, apiVars, pc, exc, result>>

\* another task (a concurrent invocation) creates, removes or rewrites the
\* file at TOKEN_PATH
EnvTokenFile ==
    /\ AtAwait
    /\ tokenFile' \in TokenFileStates \ {tokenFile}
    /\ tokenTouched' = TRUE
    /\ UNCHANGED <<handler, MAX_RETRIES, secretFile, date, time, duration_minutes,
                   apiVars, pc, exc, result, attempt, creds, outcomes, refreshCalls,
                   flowStarts, secretChecks, retrySleeps, tokenWrites, authRet>>

\* variant: a failed attempt is never retried
RetryNever(a) == FALSE

\* variant: the retry test is off by one (a retry is allowed after the last attempt)
RetryAllowedOffByOne(a) == a < MAX_RETRIES

\* if attempt < MAX_RETRIES - 1: sleep(RETRY_DELAY); continue
RetryAllowed(a) == a < MAX_RETRIES - 1

\* the terminal error of an except clause
TerminalError(e) == IF e = "TimeoutError" THEN TimeoutMessage ELSE FailedMessage

\* except TimeoutError: ... / except Exception as e: ...
AuthExcept ==
    /\ pc = "auth_except"
    /\ exc' = ""
    /\ IF RetryAllowed(attempt)
       THEN /\ retrySleeps' = retrySleeps + 1
            /\ outcomes' = Append(outcomes, exc)
            /\ pc' = "auth_loop"
            /\ UNCHANGED authRet
       ELSE /\ AuthReturn(AuthTuple(NoCreds, TerminalError(exc)), exc)
            /\ UNCHANGED retrySleeps
    /\ UNCHANGED <<reqVars, apiVars, result, attempt, creds, refreshCalls, flowStarts,
                   secretChecks, tokenWrites, tokenFile>>

----------------------------------------------------------------------------
(* Calendar API values *)

NoTime == [day |-> 0, hour |-> 0, minute |-> 0]
\* one call of the calendar API: list, insert(body) or delete(eventId)
Call(op, id, start, end, outcome) ==
    [op |-> op, id |-> id, start |-> start, end |-> end, outcome |-> outcome]

\* sequence of the elements of a set of numbers, ascending
RECURSIVE Ascending(_)
Ascending(S) ==
    IF S = {} THEN <<>>
    ELSE LET m == CHOOSE x \in S : \A y \in S : x <= y
         IN <<m>> \o Ascending(S \ {m})

\* The events the calendar may hold on the date under the title: event 1 is
\* an all-day event (its start has only 'date'), events 2 and 3 start at
\* 09:30, later ones at 23:45; a list call returns any of them, ordered by
\* start time.
RemoteEvent(i) ==
    [id |-> i,
     allDay |-> (i = 1),
     hour |-> IF i = 1 THEN 0 ELSE IF i <= 3 THEN 9 ELSE 23,
     minute |-> IF i = 1 THEN 0 ELSE IF i <= 3 THEN 30 ELSE 45]
EventLists ==
    { [k \in 1 .. Len(Ascending(S)) |-> RemoteEvent(Ascending(S)[k])] :
        S \in SUBSET (1 .. MaxEvents) }

\* start = event['start'].get('dateTime', event['start'].get('date'))
\* event_time = datetime.fromisoformat(start.replace('Z', '+00:00'))
EventTime(ev) ==
    IF ev.allDay THEN [hour |-> 0, minute |-> 0]
    ELSE [hour |-> ev.hour, minute |-> ev.minute]

\* variant: only the hour is compared
TimeMatchesHourOnly(ev, target) == EventTime(ev).hour = target.hour

\* event_time.hour == target_time.hour and event_time.minute == target_time.minute
TimeMatches(ev, target) ==
    /\ EventTime(ev).hour = target.hour
    /\ EventTime(ev).minute = target.minute

----------------------------------------------------------------------------
(* run(): after authentication *)

AuthFailedText == "Failed to authenticate with Google Calendar."
ApiTimeoutText == "Calendar API request timed out. Please try again."
CreateErrorText == "Error creating calendar event: {e}"
CancelErrorText == "Error cancelling calendar event: {e}"
ScheduledText == "Meeting '{title}' scheduled for {date} at {time} (Duration: {duration_minutes} minutes)\nCalendar link: {html_link}"
NoEventsText == "No events found matching '{title}' on {date}"
NoEventsAtText == "No events found matching '{title}' at {time} on {date}"
CancelledOneText == "Successfully cancelled the meeting '{title}' on {date}"
CancelledManyText == "Successfully cancelled {deleted_count} occurrences of '{title}' on {date}"
CancelledNoneText == "Failed to cancel any events"

ErrorText(h) == IF h = "create" THEN CreateErrorText ELSE CancelErrorText

\* variant: no except TimeoutError clause, a timeout is reported as any error
ApiHandlerNoTimeoutClause(h, e) == Msg(ErrorText(h), 0)

\* the inner except clauses of run(): TimeoutError, then Exception
ApiHandler(h, e) ==
    IF e = "TimeoutError" THEN Msg(ApiTimeoutText, 0) ELSE Msg(ErrorText(h), 0)

\* variant: no outer except clause, the exception leaves run()
OuterHandlerMissing(h, e) == Raised(e)

\* the outer except clause of run()
OuterHandler(h, e) == Msg(ErrorText(h), 0)

\* creds, error = await self.authenticate_calendar(); if error: ...; if not creds: ...
AfterAuth ==
    /\ pc = "auth_done"
    /\ IF authRet.kind # "tuple"
       THEN /\ exc' = "Exception"
            /\ pc' = "outer_except"
            /\ UNCHANGED result
       ELSE IF authRet.error # "None"
            THEN /\ result' = Msg(authRet.error, 0)
                 /\ pc' = "done"
                 /\ UNCHANGED exc
            ELSE IF ~Truthy(authRet.creds)
                 THEN /\ result' = Msg(AuthFailedText, 0)
                      /\ pc' = "done"
                      /\ UNCHANGED exc
                 ELSE /\ pc' = "build"
                      /\ UNCHANGED <<exc, result>>
    /\ UNCHANGED <<reqVars, authVars, apiVars>>

\* service = build('calendar', 'v3', credentials=creds)
Build ==
    /\ pc = "build"
    /\ \E o \in CallOutcomes :
        IF o = "ok"
        THEN /\ pc' = IF handler = "create" THEN "create_parse" ELSE "cancel_parse"
             /\ UNCHANGED exc
        ELSE /\ exc' = o
             /\ pc' = "api_except"
    /\ UNCHANGED <<reqVars, authVars, apiVars, result>>

\* except TimeoutError: ... / except Exception as e: ... (inner try of run)
ApiExcept ==
    /\ pc = "api_except"
    /\ result' = ApiHandler(handler, exc)
    /\ exc' = ""
    /\ pc' = "done"
    /\ UNCHANGED <<reqVars, authVars, apiVars>>

\* except Exception as e: ... (outer try of run)
OuterExcept ==
    /\ pc = "outer_except"
    /\ result' = OuterHandler(handler, exc)
    /\ exc' = ""
    /\ pc' = "done"
    /\ UNCHANGED <<reqVars, authVars, apiVars>>

----------------------------------------------------------------------------
(* CreateCalendarEvent.run *)

\* start_time = datetime.strptime(f"{date} {self.time}", "%Y-%m-%d %H:%M")
StartTime(d, t) == ParseDateTime(d, t)
\* end_time = start_time + timedelta(minutes=self.duration_minutes)
EndTime(d, t, m) == AddMinutes(StartTime(d, t), m)

CreateParse ==
    /\ pc = "create_parse"
    /\ IF DateTimeParses(date, time)
       THEN pc' = "create_insert" /\ UNCHANGED exc
       ELSE pc' = "api_except" /\ exc' = "Exception"
    /\ UNCHANGED <<reqVars, authVars, apiVars, result>>

\* result = service.events().insert(calendarId='primary', body=event).execute()
CreateInsert ==
    /\ pc = "create_insert"
    /\ \E o \in CallOutcomes :
        /\ remoteLog' = Append(remoteLog,
               Call("insert", 0, StartTime(date, time),
                    EndTime(date, time, duration_minutes), o))
        /\ IF o = "ok"
           THEN /\ result' = Msg(ScheduledText, duration_minutes)
                /\ pc' = "done"
                /\ UNCHANGED exc
           ELSE /\ exc' = o
                /\ pc' = "api_except"
                /\ UNCHANGED result
    /\ UNCHANGED <<reqVars, authVars, found, events, idx, deleted_count>>

----------------------------------------------------------------------------
(* CancelCalendarEvent.run *)

\* date_obj = datetime.strptime(self.date, "%Y-%m-%d")
CancelParse ==
    /\ pc = "cancel_parse"
    /\ IF DateParses(date)
       THEN pc' = "cancel_list" /\ UNCHANGED exc
       ELSE pc' = "api_except" /\ exc' = "Exception"
    /\ UNCHANGED <<reqVars, authVars, apiVars, result>>

\* events_result = service.events().list(...).execute()
\* events = events_result.get('items', []); if not events: return ...
CancelList ==
    /\ pc = "cancel_list"
    /\ \E o \in CallOutcomes :
        /\ remoteLog' = Append(remoteLog, Call("list", 0, NoTime, NoTime, o))
        /\ IF o = "ok"
           THEN /\ \E items \in EventLists :
                    /\ found' = items
                    /\ events' = items
                    /\ IF items = <<>>
                       THEN result' = Msg(NoEventsText, 0) /\ pc' = "done"
                       ELSE pc' = "cancel_filter" /\ UNCHANGED result
                /\ UNCHANGED exc
           ELSE /\ exc' = o
                /\ pc' = "api_except"
                /\ UNCHANGED <<found, events, result>>
    /\ UNCHANGED <<reqVars, authVars, idx, deleted_count>>

\* the events kept by the time filter
MatchingEvents(evs, d, t) ==
    LET target == ParseDateTime(d, t)
        Keep(ev) == TimeMatches(ev, target)
    IN SelectSeq(evs, Keep)

\* if self.time: ... events = matching_events; if not events: return ...
CancelFilter ==
    /\ pc = "cancel_filter"
    /\ IF time # "" /\ ~DateTimeParses(date, time)
       THEN /\ exc' = "Exception"
            /\ pc' = "api_except"
            /\ UNCHANGED <<events, idx, deleted_count, result>>
       ELSE LET kept == IF time # "" THEN MatchingEvents(events, date, time) ELSE events
            IN /\ events' = kept
               /\ IF kept = <<>>
                  THEN /\ result' = Msg(NoEventsAtText, 0)
                       /\ pc' = "done"
                       /\ UNCHANGED <<idx, deleted_count>>
                  ELSE /\ deleted_count' = 0
                       /\ idx' = 1
                       /\ pc' = "cancel_delete"
                       /\ UNCHANGED result
               /\ UNCHANGED exc
    /\ UNCHANGED <<reqVars, authVars, remoteLog, found>>

\* variant: a timeout of a delete is not caught in the loop
DeleteCaughtNoTimeout(o) == o = "Exception"

\* the exceptions of a delete that "except Exception as e" of the loop catches
DeleteCaught(o) == o \in {"TimeoutError", "Exception"}
\* deleted_count += 1 runs only when the delete did not raise
CountAfter(count, o) == IF o = "ok" THEN count + 1 ELSE count

\* variant: the loop ends after its first event
LoopStopsAfterFirst(i, evs) == FALSE

\* for event in events: the loop goes on to the next event, if there is one
LoopContinues(i, evs) == i < Len(evs)

\* for event in events: try: delete(eventId=event['id']) ... except Exception
CancelDelete ==
    /\ pc = "cancel_delete"
    /\ \E o \in CallOutcomes :
        /\ remoteLog' = Append(remoteLog,
               Call("delete", events[idx].id, NoTime, NoTime, o))
        /\ IF o = "ok" \/ DeleteCaught(o)
           THEN /\ deleted_count' = CountAfter(deleted_count, o)
                /\ idx' = idx + 1
                /\ pc' = IF LoopContinues(idx, events) THEN "cancel_delete" ELSE "cancel_report"
                /\ UNCHANGED exc
           ELSE /\ exc' = o
                /\ pc' = "api_except"
                /\ UNCHANGED <<deleted_count, idx>>
    /\ UNCHANGED <<reqVars, authVars, found, events, result>>

\* the message for deleted_count
ReportText(count) ==
    IF count = 1 THEN Msg(CancelledOneText, 0)
    ELSE IF count > 1 THEN Msg(CancelledManyText, count)
    ELSE Msg(CancelledNoneText, 0)

CancelReport ==
    /\ pc = "cancel_report"
    /\ result' = ReportText(deleted_count)
    /\ pc' = "done"
    /\ UNCHANGED <<reqVars, authVars, apiVars, exc>>

----------------------------------------------------------------------------
(* Specification *)

Next ==
    \/ Construct
    \/ RunStart
    \/ AuthLoop
    \/ AuthLoad
    \/ AuthCheck
    \/ AuthRefresh
    \/ AuthSecret
    \/ AuthSecretRead
    \/ AuthFlow
    \/ AuthFlowResult
    \/ EnvSecretFile
    \/ EnvTokenFile
    \/ AuthExcept
    \/ AfterAuth
    \/ Build
    \/ ApiExcept
    \/ OuterExcept
    \/ CreateParse
    \/ CreateInsert
    \/ CancelParse
    \/ CancelList
    \/ CancelFilter
    \/ CancelDelete
    \/ CancelReport

Spec == Init /\ [][Next]_vars

----------------------------------------------------------------------------
(* Properties *)

\* authenticate_calendar has returned
AuthReturned == authRet.kind # "unset"
\* every element of a sequence of outcomes is x
AllAre(seq, x) == \A i \in DOMAIN seq : seq[i] = x
\* the API calls of one kind, in the order issued
CallsOf(op) == LET Is(c) == c.op = op IN SelectSeq(remoteLog, Is)
Deletes == CallsOf("delete")
Inserts == CallsOf("insert")
\* number of calls of a sequence that ended with the outcome
RECURSIVE CountOutcome(_, _)
CountOutcome(seq, o) ==
    IF seq = <<>> THEN 0
    ELSE (IF Head(seq).outcome = o THEN 1 ELSE 0) + CountOutcome(Tail(seq), o)
\* minutes since day 0 of a day/hour/minute record
AbsMinutes(dt) == dt.day * 1440 + dt.hour * 60 + dt.minute

\* C1: authenticate_calendar always returns either (valid credential, None)
\* or (None, non-empty error string), whatever CALENDAR_MAX_RETRIES is and
\* however the attempts end.
C1_AuthContract ==
    AuthReturned =>
        /\ authRet.kind = "tuple"
        /\ \/ Valid(authRet.creds) /\ authRet.error = "None"
           \/ /\ authRet.creds = NoCreds
              /\ authRet.error \in {TimeoutMessage, FailedMessage, NoSecretMessage}

\* C2: when attempts are made and every one of them ends in a timeout, there
\* are exactly MAX_RETRIES attempts, one retry delay after each attempt but
\* the last, and the result is (None, "Authentication timed out after
\* multiple attempts.").
C2_TimeoutExhaustion ==
    (outcomes # <<>> /\ AllAre(outcomes, "TimeoutError")) =>
        IF AuthReturned
        THEN /\ Len(outcomes) = MAX_RETRIES
             /\ attempt + 1 = MAX_RETRIES
             /\ retrySleeps = MAX_RETRIES - 1
             /\ authRet = AuthTuple(NoCreds, TimeoutMessage)
        ELSE /\ Len(outcomes) < MAX_RETRIES
             /\ retrySleeps = Len(outcomes)
             /\ attempt \in {Len(outcomes) - 1, Len(outcomes)}
C2_Witness ==
    /\ authRet = AuthTuple(NoCreds, TimeoutMessage)
    /\ outcomes = <<"TimeoutError", "TimeoutError">>
    /\ retrySleeps = 1

\* C3: with a valid credential in the token file (and no other task
\* rewriting that file during the call), authenticate_calendar returns that credential on its first attempt and never starts the
\* interactive flow, never calls refresh and never looks at the secret file.
C3_ValidTokenReturned ==
    (tokenFile = "valid" /\ ~tokenTouched) =>
        /\ flowStarts = 0 /\ refreshCalls = 0 /\ secretChecks = 0
        /\ AuthReturned => authRet = AuthTuple("valid", "None") /\ attempt = 0

\* C4: with an expired credential that has a refresh token in the token
\* file (and no other task rewriting that file during the call), every attempt (first or retry, also after a refresh that raised)
\* calls refresh once and the interactive flow is never started.
C4_RefreshNotFlow ==
    (tokenFile = "expired_rt" /\ ~tokenTouched) =>
        /\ flowStarts = 0
        /\ secretChecks = 0
        /\ refreshCalls = Len(outcomes) + (IF pc = "auth_except" THEN 1 ELSE 0)
C4_Witness ==
    /\ tokenFile = "expired_rt" /\ ~tokenTouched
    /\ outcomes = <<"TimeoutError", "ok">>
    /\ refreshCalls = 2
    /\ authRet = AuthTuple("refreshed", "None")

\* C5: a successful return with a credential obtained by refresh or by the
\* interactive flow leaves that credential in the token file; a return of
\* the credential that was already valid leaves the file unwritten (no other
\* task rewriting the file during the call).
C5_TokenPersisted ==
    (AuthReturned /\ authRet.kind = "tuple" /\ authRet.error = "None"
        /\ ~tokenTouched) =>
        IF authRet.creds \in {"refreshed", "fresh"}
        THEN tokenFile = authRet.creds
        ELSE tokenWrites = 0 /\ tokenFile = "valid"

\* C6: every insert of CreateCalendarEvent carries start = date + time and
\* end = start + duration_minutes minutes, and a request with
\* duration_minutes <= 0 or > 480 is rejected before any remote call.
C6_EndIsStartPlusDuration ==
    /\ \A i \in DOMAIN Inserts :
        /\ DurationValid(duration_minutes)
        /\ AbsMinutes(Inserts[i].start)
             = DayOf(date) * 1440 + HourOf(time) * 60 + MinuteOf(time)
        /\ AbsMinutes(Inserts[i].end)
             = AbsMinutes(Inserts[i].start) + duration_minutes
        /\ Inserts[i].end.hour \in 0 .. 23
        /\ Inserts[i].end.minute \in 0 .. 59
    /\ (handler = "create" /\ ~DurationValid(duration_minutes)) =>
        /\ pc \in {"new", "rejected"}
        /\ remoteLog = <<>>
        /\ attempt = -1 /\ refreshCalls = 0 /\ flowStarts = 0
C6_Witness ==
    /\ pc = "done"
    /\ Len(Inserts) = 1
    /\ Inserts[1].outcome = "ok"
    /\ time = "23:45" /\ duration_minutes = 480
    /\ Inserts[1].end = [day |-> DayOf(date) + 1, hour |-> 7, minute |-> 45]

\* C7: without a time filter, when the search returns n >= 2 events and
\* every delete succeeds, there is exactly one delete per returned event,
\* with that event's id, and the message reports n.
C7_DeletesAllFound ==
    (/\ handler = "cancel" /\ time = "" /\ pc = "done"
     /\ Len(found) >= 2
     /\ AllAre([i \in DOMAIN Deletes |-> Deletes[i].outcome], "ok")) =>
        /\ Len(Deletes) = Len(found)
        /\ \A k \in DOMAIN found : Deletes[k].id = found[k].id
        /\ result = Msg(CancelledManyText, Len(found))
C7_Witness ==
    /\ handler = "cancel" /\ time = "" /\ pc = "done"
    /\ Len(found) = 2
    /\ found[1].hour = found[2].hour /\ found[1].minute = found[2].minute
    /\ Len(Deletes) = 2
    /\ result = Msg(CancelledManyText, 2)

\* an event of the search result starts at the requested time
StartsAt(ev, t) ==
    TimeParses(t) /\ EventTime(ev).hour = HourOf(t) /\ EventTime(ev).minute = MinuteOf(t)
\* every delete issued is for a found event that starts at the requested time
DeletesOnlyAtTime ==
    \A k \in DOMAIN Deletes :
        \E j \in DOMAIN found : found[j].id = Deletes[k].id /\ StartsAt(found[j], time)
NoneStartsAt == \A j \in DOMAIN found : ~StartsAt(found[j], time)

\* C8 as stated: with a time filter, deletes go only to found events that
\* start at the requested time, and when the search result is non-empty and
\* none of its events starts at the requested time the result is
\* "No events found matching '<title>' at <time> on <date>", with no delete.
C8_AsStated ==
    (handler = "cancel" /\ time # "") =>
        /\ DeletesOnlyAtTime
        /\ (pc = "done" /\ found # <<>> /\ NoneStartsAt) =>
              Deletes = <<>> /\ result = Msg(NoEventsAtText, 0)

\* C8 amended: the same, for a requested time that parses as HH:MM; for a
\* requested time that does not parse, no delete is issued and the result is
\* the "Error cancelling calendar event: ..." string.
C8_TimeFilter ==
    (handler = "cancel" /\ time # "") =>
        /\ DeletesOnlyAtTime
        /\ (pc = "done" /\ found # <<>> /\ NoneStartsAt) =>
              /\ Deletes = <<>>
              /\ result = IF TimeParses(time) THEN Msg(NoEventsAtText, 0)
                          ELSE Msg(CancelErrorText, 0)
C8_Witness ==
    /\ handler = "cancel" /\ time = "09:00" /\ pc = "done"
    /\ Len(found) = 3
    /\ Deletes = <<>>
    /\ result = Msg(NoEventsAtText, 0)

\* the count a cancellation message reports
ReportedCount(r) ==
    IF r.text = CancelledOneText THEN 1
    ELSE IF r.text = CancelledManyText THEN r.n
    ELSE 0
ReportTexts == {CancelledOneText, CancelledManyText, CancelledNoneText}

\* C9: once the delete loop has started, whatever deletes fail, run() ends
\* with exactly one delete attempted per matched event, in order, and with a
\* message that reports the number of deletes that did not fail.
C9_DeleteFailuresSkipped ==
    /\ (pc \in {"done", "api_except"} /\ idx >= 1) =>
          /\ pc = "done"
          /\ Len(Deletes) = Len(events)
          /\ \A k \in DOMAIN events : Deletes[k].id = events[k].id
          /\ result.type = "str" /\ result.text \in ReportTexts
          /\ ReportedCount(result) = CountOutcome(Deletes, "ok")
    /\ pc = "cancel_delete" => deleted_count = CountOutcome(Deletes, "ok")
C9_Witness ==
    /\ pc = "done"
    /\ Len(events) = 3
    /\ Len(Deletes) = 3
    /\ Deletes[1].outcome = "TimeoutError"
    /\ Deletes[2].outcome = "Exception"
    /\ Deletes[3].outcome = "ok"
    /\ result = Msg(CancelledOneText, 0)

\* C10: run() of both handlers always ends by returning a string: no
\* exception leaves it, whatever fails and whatever MAX_RETRIES is.
C10_RunReturnsString ==
    /\ result.type \in {"unset", "str"}
    /\ pc = "done" <=> result.type = "str"
    /\ pc \notin {"done", "rejected"} => ENABLED Next
C10_Witness ==
    /\ pc = "done"
    /\ MAX_RETRIES = 0
    /\ authRet = AuthNone
    /\ result = Msg(ErrorText(handler), 0)

\* authenticate_calendar has returned (None, error)
AuthFailed == AuthReturned /\ authRet.kind = "tuple" /\ authRet.error # "None"
\* number of authentication attempts started
Attempts == attempt + 1

\* C11 as stated: every terminal authentication error, the missing secret
\* file included, is returned only after MAX_RETRIES attempts.
C11_AsStated == AuthFailed => Attempts = MAX_RETRIES

\* C11 amended: a timeout and any other exception are retried, and their
\* terminal errors are returned only after MAX_RETRIES attempts, with a
\* retry delay after each attempt but the last; a missing secret file is not
\* retried: its error is returned by the attempt that finds the file missing.
C11_ExceptionsRetried ==
    AuthFailed =>
        /\ Len(outcomes) = Attempts
        /\ retrySleeps = Attempts - 1
        /\ IF authRet.error = NoSecretMessage
           THEN /\ outcomes[Attempts] = "nosecret"
                /\ secretFile = "absent"
                /\ Attempts <= MAX_RETRIES
           ELSE /\ Attempts = MAX_RETRIES
                /\ outcomes[Attempts] \in Exceptions
                /\ authRet.error = TerminalError(outcomes[Attempts])
                /\ \A i \in DOMAIN outcomes : outcomes[i] \in Exceptions
C11_Witness ==
    /\ authRet = AuthTuple(NoCreds, FailedMessage)
    /\ outcomes = <<"TimeoutError", "Exception">>
    /\ retrySleeps = 1

\* position k of the API calls is a call of one of the kinds that timed out
TimedOut(k, ops) == remoteLog[k].op \in ops /\ remoteLog[k].outcome = "TimeoutError"
\* the call at position k was the last remote call, and run() reports the timeout
Abandoned(k) ==
    /\ k = Len(remoteLog)
    /\ pc \in {"api_except", "done"}
    /\ pc = "done" => result = Msg(ApiTimeoutText, 0)

\* C12 as stated: a timeout of any API call (insert, list, delete) is the
\* last remote call of the invocation and run() returns "Calendar API
\* request timed out. Please try again.".
C12_AsStated ==
    \A k \in DOMAIN remoteLog :
        TimedOut(k, {"insert", "list", "delete"}) => Abandoned(k)

\* C12 amended: a timeout of the insert or of the list is the last remote
\* call, is not retried, and run() returns the timeout message; a timeout
\* of a delete is skipped like any other delete failure: the loop goes on
\* to the remaining events and run() returns the cancellation count.
C12_InsertListTimeoutAbandons ==
    /\ \A k \in DOMAIN remoteLog : TimedOut(k, {"insert", "list"}) => Abandoned(k)
    /\ Len(Inserts) <= 1 /\ Len(CallsOf("list")) <= 1
    /\ \A k \in DOMAIN remoteLog :
        TimedOut(k, {"delete"}) =>
            /\ pc \in {"cancel_delete", "cancel_report", "done"}
            /\ pc # "cancel_delete" => Len(Deletes) = Len(events)
            /\ pc = "done" =>
                /\ result.text \in ReportTexts
                /\ ReportedCount(result) = CountOutcome(Deletes, "ok")
C12_Witness ==
    /\ pc = "done"
    /\ handler = "cancel"
    /\ Len(remoteLog) = 1
    /\ remoteLog[1].op = "list" /\ remoteLog[1].outcome = "TimeoutError"
    /\ result = Msg(ApiTimeoutText, 0)

====
